---- MODULE Spec2Model ----
(***************************************************************************)
(* City Travel Metrics API (src/endpoints.py): the request handlers over   *)
(* the city_metrics table, and the recommendations decoder.                *)
(*                                                                         *)
(* Text is modelled as a sequence of Unicode code points, so that letter   *)
(* case, substring search, LIKE patterns and JSON decoding are computed    *)
(* character by character rather than assumed.                             *)
(***************************************************************************)
EXTENDS Integers, Sequences, FiniteSets, TLC

VARIABLES
    table,       \* rows of city_metrics in rowid order (<<>> when the table is absent)
    dbMode,      \* "ok" | "no_table" | "absent" (no database file) | "unreachable"
    req,         \* the request whose handler has just run (NoRequest when idle)
    resp,        \* the response (or propagated exception) of that request
    openConns,   \* connections opened by finished handlers and not yet closed
    reqOpened,   \* connections that request's handler opened
    reqQueries,  \* cursor.execute calls that request's handler made
    value,       \* a stored recommendations text
    parsed       \* [called, result]: parse_recommendations(value), once called

vars == <<table, dbMode, req, resp, openConns, reqOpened, reqQueries, value, parsed>>

(***************************************************************************)
(* Bounds of the model and constants of the program.                       *)
(***************************************************************************)
MaxRows == 3
MaxLeaked == 2
MaxRecLen == 4

LimitMin == 1
LimitMax == 50
MinQueryLen == 2

Range(s) == {s[i] : i \in 1..Len(s)}

Min(a, b) == IF a <= b THEN a ELSE b

(***************************************************************************)
(* Letter case.                                                            *)
(***************************************************************************)
\* SQLite's built-in LOWER(): folds the ASCII letters A-Z only.
SqlLowerChar(c) == IF c \in 65..90 THEN c + 32 ELSE c

SqlLower(s) == [i \in 1..Len(s) |-> SqlLowerChar(s[i])]

\* Python's str.lower() on the Basic Latin and Latin-1 letters.
PyLowerChar(c) ==
    IF c \in 65..90 \/ (c \in 192..222 /\ c # 215) THEN c + 32 ELSE c

PyLower_CaseSensitive(s) == s

PyLower(s) == [i \in 1..Len(s) |-> PyLowerChar(s[i])]

(***************************************************************************)
(* Python string helpers used by parse_recommendations.                    *)
(***************************************************************************)
\* str.isspace() on the code points below U+0100.
IsSpace(c) == c \in {9, 10, 11, 12, 13, 28, 29, 30, 31, 32, 133, 160}

RECURSIVE LStrip(_)
LStrip(s) == IF s # <<>> /\ IsSpace(Head(s)) THEN LStrip(Tail(s)) ELSE s

RECURSIVE RStrip(_)
RStrip(s) ==
    IF s # <<>> /\ IsSpace(s[Len(s)]) THEN RStrip(SubSeq(s, 1, Len(s) - 1)) ELSE s

Strip_Nothing(s) == s

\* str.strip()
Strip(s) == RStrip(LStrip(s))

\* str.split(sep) for a one-character separator: empty pieces are kept.
RECURSIVE Split(_, _)
Split(s, sep) ==
    IF sep \notin Range(s) THEN <<s>>
    ELSE LET k == CHOOSE i \in 1..Len(s) :
                      s[i] = sep /\ \A j \in 1..(i - 1) : s[j] # sep
         IN  <<SubSeq(s, 1, k - 1)>> \o Split(SubSeq(s, k + 1, Len(s)), sep)

(***************************************************************************)
(* json.loads on text made of strings, integers, arrays and whitespace.    *)
(* A decoded value is [t, s, items]: a str carries its characters in s, an *)
(* int its digits in s, a list its elements in items.  Any other first     *)
(* character of a value is a decoding error, which is what json.loads      *)
(* answers for every text of RecInputs (none has a literal, an object, a   *)
(* sign, a fraction or a \u escape where a value is expected).             *)
(***************************************************************************)
JStr(x) == [t |-> "str", s |-> x, items |-> <<>>]
JInt(x) == [t |-> "int", s |-> x, items |-> <<>>]
JList(xs) == [t |-> "list", s |-> <<>>, items |-> xs]

JsonFail == [ok |-> FALSE, val |-> JStr(<<>>), next |-> 0]
JsonOk(v, n) == [ok |-> TRUE, val |-> v, next |-> n]

JsonWs == {32, 9, 10, 13}

RECURSIVE SkipWs(_, _)
SkipWs(s, i) == IF i <= Len(s) /\ s[i] \in JsonWs THEN SkipWs(s, i + 1) ELSE i

\* The one-character escapes of a JSON string.
Unescape(c) ==
    CASE c = 98 -> 8 [] c = 102 -> 12 [] c = 110 -> 10
      [] c = 114 -> 13 [] c = 116 -> 9 [] OTHER -> c

\* Scans a string body from position i (just after the opening quote).
RECURSIVE ScanString(_, _, _)
ScanString(s, i, acc) ==
    IF i > Len(s) THEN JsonFail
    ELSE IF s[i] = 34 THEN JsonOk(JStr(acc), i + 1)
    ELSE IF s[i] < 32 THEN JsonFail
    ELSE IF s[i] = 92
         THEN IF i + 1 <= Len(s) /\ s[i + 1] \in {34, 92, 47, 98, 102, 110, 114, 116}
              THEN ScanString(s, i + 2, Append(acc, Unescape(s[i + 1])))
              ELSE JsonFail
    ELSE ScanString(s, i + 1, Append(acc, s[i]))

RECURSIVE ScanDigits(_, _)
ScanDigits(s, i) == IF i <= Len(s) /\ s[i] \in 48..57 THEN ScanDigits(s, i + 1) ELSE i

\* An integer: 0, or a nonzero digit followed by digits.
ScanNumber(s, i) ==
    LET n == IF s[i] = 48 THEN i + 1 ELSE ScanDigits(s, i)
    IN  JsonOk(JInt(SubSeq(s, i, n - 1)), n)

RECURSIVE ParseValue(_, _)
RECURSIVE ParseElems(_, _, _)

\* Decodes the value starting at position i.
ParseValue(s, i) ==
    IF i > Len(s) THEN JsonFail
    ELSE IF s[i] = 34 THEN ScanString(s, i + 1, <<>>)
    ELSE IF s[i] = 91
         THEN LET j == SkipWs(s, i + 1)
              IN  IF j <= Len(s) /\ s[j] = 93
                  THEN JsonOk(JList(<<>>), j + 1)
                  ELSE ParseElems(s, j, <<>>)
    ELSE IF s[i] \in 48..57 THEN ScanNumber(s, i)
    ELSE JsonFail

\* Decodes the elements of an array from position i, after those in acc.
ParseElems(s, i, acc) ==
    LET v == ParseValue(s, i)
    IN  IF ~v.ok THEN JsonFail
        ELSE LET j == SkipWs(s, v.next)
             IN  IF j > Len(s) THEN JsonFail
                 ELSE IF s[j] = 93 THEN JsonOk(JList(Append(acc, v.val)), j + 1)
                 ELSE IF s[j] # 44 THEN JsonFail
                 ELSE ParseElems(s, SkipWs(s, j + 1), Append(acc, v.val))

\* json.loads(text): one value, with whitespace allowed around it only.
json_loads(s) ==
    LET v == ParseValue(s, SkipWs(s, 1))
    IN  IF v.ok /\ SkipWs(s, v.next) = Len(s) + 1 THEN v ELSE JsonFail

\* str(x) of a decoded str or int.
PyStr(v) == v.s

(***************************************************************************)
(* parse_recommendations.  A stored value is [null, text]: NULL, or text.  *)
(* The result is a sequence of decoded values; a Python str is a JStr.     *)
(***************************************************************************)
Null == [null |-> TRUE, text |-> <<>>]
Text(s) == [null |-> FALSE, text |-> s]

NotParsed == [called |-> FALSE, result |-> <<>>]

parse_recommendations(v) ==
    IF v.null \/ v.text = <<>> THEN <<>>
    ELSE LET j == json_loads(v.text)
         IN  IF j.ok
             THEN IF j.val.t = "list" THEN j.val.items ELSE <<JStr(PyStr(j.val))>>
             ELSE IF 44 \in Range(v.text)
                  THEN LET p == Split(v.text, 44)
                       IN  [i \in 1..Len(p) |-> JStr(Strip(p[i]))]
             ELSE IF 10 \in Range(v.text)
                  THEN LET p == Split(v.text, 10)
                           q == [i \in 1..Len(p) |-> JStr(Strip(p[i]))]
                       IN  SelectSeq(q, LAMBDA x : x.s # <<>>)
             ELSE <<JStr(v.text)>>

(***************************************************************************)
(* The city_metrics table.  A row carries the columns the handlers read;   *)
(* the free-text description, tips and summary columns, which every        *)
(* handler copies unchanged, are represented by city_description alone.    *)
(* Scores are numbers within [0, 10], as the response models require.      *)
(***************************************************************************)
Row(id, capital, country, overall, sc, rec, recOther) ==
    [id |-> id, capital |-> capital, country |-> country,
     analysis_date |-> "2024-01-01", city_description |-> "description",
     overall_score |-> overall,
     safety_score |-> sc[1], sustainability_score |-> sc[2],
     enjoyment_score |-> sc[3], calmcation_score |-> sc[4],
     cultural_exchange_score |-> sc[5], navigation_score |-> sc[6],
     eco_friendly_score |-> sc[7],
     safety_recommendations |-> rec,
     sustainability_recommendations |-> recOther,
     enjoyment_recommendations |-> recOther,
     calmcation_recommendations |-> recOther,
     cultural_exchange_recommendations |-> recOther,
     navigation_recommendations |-> recOther,
     eco_friendly_recommendations |-> recOther]

\* Rows the table is drawn from: "Paris" occurs in two countries, two rows
\* tie on overall_score, and one capital has a letter outside ASCII.
Pool ==
    { Row(1, <<80, 97, 114, 105, 115>>, <<70, 114, 97, 110, 99, 101>>, 7,       \* Paris, France
          <<6, 7, 9, 4, 8, 7, 6>>,
          Text(<<91, 34, 98, 105, 107, 101, 34, 93>>),                          \* ["bike"]
          Text(<<108, 111, 99, 107, 44, 32, 119, 97, 108, 107>>)),              \* lock, walk
      Row(2, <<82, 101, 121, 107, 106, 97, 118, 237, 107>>,                     \* Reykjavik with i-acute
          <<73, 99, 101, 108, 97, 110, 100>>, 9,                                \* Iceland
          <<9, 9, 6, 9, 5, 6, 9>>,
          Text(<<120, 10, 121>>), Null),                                        \* x\ny
      Row(3, <<80, 97, 114, 105, 115>>, <<84, 101, 120, 97, 115>>, 7,           \* Paris, Texas
          <<6, 3, 5, 6, 4, 7, 6>>,
          Text(<<116, 114, 97, 109>>), Text(<<>>)),                             \* tram
      Row(4, <<82, 111, 109, 101>>, <<73, 116, 97, 108, 121>>, 5,               \* Rome, Italy
          <<5, 6, 8, 3, 9, 4, 5>>,
          Null, Text(<<97, 44, 32, 98, 44, 32, 99>>)) }                         \* a, b, c

\* Every table of at most MaxRows distinct rows of the pool, in any order.
Tables ==
    UNION { {t \in [1..n -> Pool] : \A i, j \in 1..n : i # j => t[i] # t[j]}
            : n \in 0..MaxRows }

(***************************************************************************)
(* The SQL the handlers run.                                               *)
(***************************************************************************)
\* a < b in the BINARY collation (code point by code point, prefix first).
RECURSIVE BinaryLess(_, _)
BinaryLess(a, b) ==
    IF b = <<>> THEN FALSE
    ELSE IF a = <<>> THEN TRUE
    ELSE IF Head(a) # Head(b) THEN Head(a) < Head(b)
    ELSE BinaryLess(Tail(a), Tail(b))

\* Whether row x goes before row y: by col descending, by col ascending, or
\* by capital ascending.
Before(order, col, x, y) ==
    CASE order = "desc" -> x[col] > y[col]
      [] order = "asc" -> x[col] < y[col]
      [] OTHER -> BinaryLess(x.capital, y.capital)

\* Inserts r into the sorted sequence acc, after the rows it does not go before.
RECURSIVE InsertRow(_, _, _, _)
InsertRow(acc, r, order, col) ==
    IF acc = <<>> THEN <<r>>
    ELSE IF Before(order, col, r, Head(acc)) THEN <<r>> \o acc
    ELSE <<Head(acc)>> \o InsertRow(Tail(acc), r, order, col)

\* The rows sorted; rows neither of which goes before the other keep their
\* table order.
RECURSIVE SortRows(_, _, _)
SortRows(rows, order, col) ==
    IF rows = <<>> THEN <<>>
    ELSE InsertRow(SortRows(SubSeq(rows, 1, Len(rows) - 1), order, col),
                   rows[Len(rows)], order, col)

OrderByDesc_Ascending(rows, col) == SortRows(rows, "asc", col)

\* ORDER BY col DESC
OrderByDesc(rows, col) == SortRows(rows, "desc", col)

\* ORDER BY capital
OrderByCapital(rows) == SortRows(rows, "capital", "capital")

\* LIMIT n
Limit(rows, n) == SubSeq(rows, 1, Min(n, Len(rows)))

\* text LIKE pattern: % matches any run of characters, _ any one character,
\* and any other character matches itself, ASCII letters regardless of case.
RECURSIVE Like(_, _)
Like(t, p) ==
    IF p = <<>> THEN t = <<>>
    ELSE IF Head(p) = 37 THEN Like(t, Tail(p)) \/ (t # <<>> /\ Like(Tail(t), p))
    ELSE IF t = <<>> THEN FALSE
    ELSE IF Head(p) = 95 THEN Like(Tail(t), Tail(p))
    ELSE SqlLowerChar(Head(p)) = SqlLowerChar(Head(t)) /\ Like(Tail(t), Tail(p))

\* `if country:` -- the parameter was given and is not the empty string.
CountryGiven(country) == country.given /\ country.text # <<>>

\* WHERE LOWER(capital) = LOWER(?) [AND LOWER(country) = LOWER(?)]
WhereCity(rows, city_name, country) ==
    SelectSeq(rows, LAMBDA r :
        /\ SqlLower(r.capital) = SqlLower(city_name)
        /\ CountryGiven(country) => SqlLower(r.country) = SqlLower(country.text))

\* WHERE LOWER(capital) LIKE LOWER('%query%') OR LOWER(country) LIKE LOWER('%query%')
WhereSearch(rows, query) ==
    LET pattern == SqlLower(<<37>> \o query \o <<37>>)
    IN  SelectSeq(rows, LAMBDA r :
            \/ Like(SqlLower(r.capital), pattern)
            \/ Like(SqlLower(r.country), pattern))

AfterSelect_DeletesFirst(rows) == IF rows = <<>> THEN rows ELSE Tail(rows)

\* The table after a SELECT statement: as the statement found it.
AfterSelect(rows) == rows

(***************************************************************************)
(* Requests and responses.                                                 *)
(***************************************************************************)
NoCountry == [given |-> FALSE, text |-> <<>>]
Country(s) == [given |-> TRUE, text |-> s]

Request(endpoint, city_name, country, category, query, limit) ==
    [endpoint |-> endpoint, city_name |-> city_name, country |-> country,
     category |-> category, query |-> query, limit |-> limit]

NoRequest == Request("none", <<>>, NoCountry, <<>>, <<>>, 0)

NoDetail == [msg |-> "", arg |-> <<>>, valid |-> <<>>]
NoBody == [kind |-> "none", items |-> <<>>, record |-> [id |-> 0], count |-> 0]

\* error: "none", or the exception that left the handler (or kept it from running)
Response(status, error, body, detail) ==
    [status |-> status, error |-> error, body |-> body, detail |-> detail]

NoResponse == Response(0, "none", NoBody, NoDetail)

Ok(body) == Response(200, "none", body, NoDetail)

\* raise HTTPException(status_code=..., detail=...)
HttpError(status, msg, arg, valid) ==
    Response(status, "HTTPException", NoBody, [msg |-> msg, arg |-> arg, valid |-> valid])

\* A parameter fails its Query(...) constraint: the framework answers 422
\* and the handler is not called.
ValidationError == Response(422, "RequestValidationError", NoBody, NoDetail)

\* sqlite3.OperationalError leaves the handler uncaught; the framework
\* answers 500 Internal Server Error.
Unhandled == Response(500, "OperationalError", NoBody, NoDetail)

ListBody(items) == [kind |-> "list", items |-> items, record |-> [id |-> 0], count |-> Len(items)]
RecordBody(rec) == [kind |-> "record", items |-> <<>>, record |-> rec, count |-> 0]
HealthBody(n) == [kind |-> "health", items |-> <<>>, record |-> [id |-> 0], count |-> n]

LimitOK_NoUpperBound(limit) == limit >= LimitMin

\* Query(10, ge=1, le=50)
LimitOK(limit) == limit >= LimitMin /\ limit <= LimitMax

\* Query(..., min_length=2)
QueryOK(query) == Len(query) >= MinQueryLen

\* valid_categories, in key order
valid_categories ==
    << [key |-> <<115, 97, 102, 101, 116, 121>>, column |-> "safety_score"],
       [key |-> <<115, 117, 115, 116, 97, 105, 110, 97, 98, 105, 108, 105, 116, 121>>,
        column |-> "sustainability_score"],
       [key |-> <<101, 110, 106, 111, 121, 109, 101, 110, 116>>, column |-> "enjoyment_score"],
       [key |-> <<99, 97, 108, 109, 99, 97, 116, 105, 111, 110>>, column |-> "calmcation_score"],
       [key |-> <<99, 117, 108, 116, 117, 114, 97, 108, 95, 101, 120, 99, 104, 97, 110, 103, 101>>,
        column |-> "cultural_exchange_score"],
       [key |-> <<110, 97, 118, 105, 103, 97, 116, 105, 111, 110>>, column |-> "navigation_score"],
       [key |-> <<101, 99, 111, 95, 102, 114, 105, 101, 110, 100, 108, 121>>,
        column |-> "eco_friendly_score"] >>

\* list(valid_categories.keys())
CategoryKeys == [i \in 1..Len(valid_categories) |-> valid_categories[i].key]

\* category.lower() in valid_categories
CategoryValid(category) == PyLower(category) \in Range(CategoryKeys)

\* valid_categories[category.lower()]
ScoreColumn(category) ==
    valid_categories[CHOOSE i \in 1..Len(valid_categories) :
                         valid_categories[i].key = PyLower(category)].column

(***************************************************************************)
(* Row-to-response mapping.                                                *)
(***************************************************************************)
MetricDetail(score, recommendations) ==
    [score |-> score, recommendations |-> parse_recommendations(recommendations)]

CityMetrics(city) ==
    [id |-> city.id, country |-> city.country, capital |-> city.capital,
     analysis_date |-> city.analysis_date,
     city_description |-> city.city_description,
     safety |-> MetricDetail(city.safety_score, city.safety_recommendations),
     sustainability |->
         MetricDetail(city.sustainability_score, city.sustainability_recommendations),
     enjoyment |-> MetricDetail(city.enjoyment_score, city.enjoyment_recommendations),
     calmcation |-> MetricDetail(city.calmcation_score, city.calmcation_recommendations),
     cultural_exchange |->
         MetricDetail(city.cultural_exchange_score, city.cultural_exchange_recommendations),
     navigation |-> MetricDetail(city.navigation_score, city.navigation_recommendations),
     eco_friendly |->
         MetricDetail(city.eco_friendly_score, city.eco_friendly_recommendations),
     overall_score |-> city.overall_score]

ScoresSummary(city) ==
    [capital |-> city.capital, country |-> city.country,
     overall_score |-> city.overall_score,
     safety_score |-> city.safety_score,
     sustainability_score |-> city.sustainability_score,
     enjoyment_score |-> city.enjoyment_score,
     calmcation_score |-> city.calmcation_score,
     cultural_exchange_score |-> city.cultural_exchange_score,
     navigation_score |-> city.navigation_score,
     eco_friendly_score |-> city.eco_friendly_score]

CityListItem(city) ==
    [capital |-> city.capital, country |-> city.country,
     overall_score |-> city.overall_score, analysis_date |-> city.analysis_date]

TopCityItem(idx, city) ==
    [rank |-> idx, capital |-> city.capital, country |-> city.country,
     overall_score |-> city.overall_score,
     scores |-> [safety |-> city.safety_score,
                 sustainability |-> city.sustainability_score,
                 enjoyment |-> city.enjoyment_score,
                 calmcation |-> city.calmcation_score,
                 cultural_exchange |-> city.cultural_exchange_score,
                 navigation |-> city.navigation_score,
                 eco_friendly |-> city.eco_friendly_score],
     description |-> city.city_description]

CategoryItem(idx, city, score_column) ==
    [rank |-> idx, capital |-> city.capital, country |-> city.country,
     category_score |-> city[score_column],
     overall_score |-> city.overall_score,
     description |-> city.city_description]

SearchItem(city) ==
    [capital |-> city.capital, country |-> city.country,
     overall_score |-> city.overall_score, description |-> city.city_description]

(***************************************************************************)
(* The handlers.  A handler runs to completion in one step.                *)
(***************************************************************************)
\* The request r ends with response rsp, having opened `opened` connections
\* and made `queries` execute calls, `leaked` of the connections still open.
\* sqlite3.connect creates the database file when there is none.
Respond(r, rsp, opened, queries, leaked) ==
    /\ req = NoRequest
    /\ req' = r
    /\ resp' = rsp
    /\ reqOpened' = opened
    /\ reqQueries' = queries
    /\ openConns' = openConns + leaked
    /\ dbMode' = IF opened > 0 /\ dbMode = "absent" THEN "no_table" ELSE dbMode
    /\ table' = IF queries > 0 /\ dbMode = "ok" THEN AfterSelect(table) ELSE table
    /\ UNCHANGED <<value, parsed>>

\* conn = get_db_connection(); cursor.execute(...); fetch; conn.close().
\* When connect raises no connection exists; when execute raises (no such
\* table) the exception leaves before conn.close() and the connection stays
\* open until the interpreter finalizes it.
Serve(r, okResp, failResp) ==
    CASE dbMode = "unreachable" -> Respond(r, failResp, 0, 0, 0)
      [] dbMode \in {"absent", "no_table"} ->
            openConns < MaxLeaked /\ Respond(r, failResp, 1, 1, 1)
      [] OTHER -> Respond(r, okResp, 1, 1, 0)

\* Rejected before any connection is made.
Reject(r, rsp) == Respond(r, rsp, 0, 0, 0)

get_all_cities_NoEmptyCheck ==
    LET r == Request("cities", <<>>, NoCountry, <<>>, <<>>, 0)
        cities == OrderByCapital(table)
    IN  Serve(r, Ok(ListBody([i \in 1..Len(cities) |-> CityListItem(cities[i])])),
              Unhandled)

get_all_cities ==
    LET r == Request("cities", <<>>, NoCountry, <<>>, <<>>, 0)
        cities == OrderByCapital(table)
    IN  Serve(r,
              IF cities = <<>>
              THEN HttpError(404, "No cities found in database", <<>>, <<>>)
              ELSE Ok(ListBody([i \in 1..Len(cities) |-> CityListItem(cities[i])])),
              Unhandled)

get_city_metrics(city_name, country) ==
    LET r == Request("city", city_name, country, <<>>, <<>>, 0)
        rows == WhereCity(table, city_name, country)
    IN  Serve(r,
              IF rows = <<>>
              THEN HttpError(404, "City not found in database", city_name, <<>>)
              ELSE Ok(RecordBody(CityMetrics(Head(rows)))),
              Unhandled)

get_city_scores(city_name, country) ==
    LET r == Request("city_scores", city_name, country, <<>>, <<>>, 0)
        rows == WhereCity(table, city_name, country)
    IN  Serve(r,
              IF rows = <<>>
              THEN HttpError(404, "City not found in database", city_name, <<>>)
              ELSE Ok(RecordBody(ScoresSummary(Head(rows)))),
              Unhandled)

get_top_cities(limit) ==
    LET r == Request("top_cities", <<>>, NoCountry, <<>>, <<>>, limit)
        cities == Limit(OrderByDesc(table, "overall_score"), limit)
    IN  IF ~LimitOK(limit) THEN Reject(r, ValidationError)
        ELSE Serve(r,
                   IF cities = <<>>
                   THEN HttpError(404, "No cities found", <<>>, <<>>)
                   ELSE Ok(ListBody([i \in 1..Len(cities) |-> TopCityItem(i, cities[i])])),
                   Unhandled)

get_top_cities_by_category(category, limit) ==
    LET r == Request("top_cities_by_category", <<>>, NoCountry, category, <<>>, limit)
    IN  IF ~LimitOK(limit) THEN Reject(r, ValidationError)
        ELSE IF ~CategoryValid(category)
        THEN Reject(r, HttpError(400, "Invalid category. Valid categories", <<>>, CategoryKeys))
        ELSE LET score_column == ScoreColumn(category)
                 cities == Limit(OrderByDesc(table, score_column), limit)
             IN  Serve(r,
                       IF cities = <<>>
                       THEN HttpError(404, "No cities found", <<>>, <<>>)
                       ELSE Ok(ListBody([i \in 1..Len(cities) |->
                                            CategoryItem(i, cities[i], score_column)])),
                       Unhandled)

search_cities(query, limit) ==
    LET r == Request("search", <<>>, NoCountry, <<>>, query, limit)
        cities == Limit(OrderByDesc(WhereSearch(table, query), "overall_score"), limit)
    IN  IF ~QueryOK(query) \/ ~LimitOK(limit) THEN Reject(r, ValidationError)
        ELSE Serve(r,
                   IF cities = <<>>
                   THEN HttpError(404, "No cities found matching", query, <<>>)
                   ELSE Ok(ListBody([i \in 1..Len(cities) |-> SearchItem(cities[i])])),
                   Unhandled)

\* Every exception is caught and turned into a 500 with the failure detail.
health_check_Uncaught ==
    Serve(Request("health", <<>>, NoCountry, <<>>, <<>>, 0),
          Ok(HealthBody(Len(table))), Unhandled)

health_check ==
    LET r == Request("health", <<>>, NoCountry, <<>>, <<>>, 0)
    IN  Serve(r, Ok(HealthBody(Len(table))),
              HttpError(500, "Health check failed", <<>>, <<>>))

\* The interpreter finalizes a connection object nothing refers to any more,
\* which closes it; when that happens is not the handler's doing.
Finalize ==
    /\ openConns > 0
    /\ openConns' = openConns - 1
    /\ UNCHANGED <<table, dbMode, req, resp, reqOpened, reqQueries, value, parsed>>

\* The framework sends the response (a 500 for an uncaught exception) and
\* the service is ready for the next request.
Deliver ==
    /\ req # NoRequest
    /\ req' = NoRequest
    /\ resp' = NoResponse
    /\ reqOpened' = 0
    /\ reqQueries' = 0
    /\ UNCHANGED <<table, dbMode, openConns, value, parsed>>

(***************************************************************************)
(* Request parameters tried.                                               *)
(***************************************************************************)
CityNameInputs ==
    { <<112, 97, 114, 105, 115>>,                        \* paris
      <<80, 65, 82, 73, 83>>,                            \* PARIS
      <<82, 101, 121, 107, 106, 97, 118, 237, 107>>,     \* Reykjavik with i-acute
      <<82, 69, 89, 75, 74, 65, 86, 205, 75>>,           \* REYKJAVIK with I-acute
      <<82, 79, 77, 69>>,                                \* ROME
      <<111, 115, 108, 111>> }                           \* oslo

CountryInputs ==
    { NoCountry, Country(<<>>),
      Country(<<70, 82, 65, 78, 67, 69>>),               \* FRANCE
      Country(<<116, 101, 120, 97, 115>>),               \* texas
      Country(<<73, 67, 69, 76, 65, 78, 68>>),           \* ICELAND
      Country(<<105, 116, 97, 108, 121>>) }              \* italy

\* 10 is the default of an absent limit parameter.
LimitInputs == {0, 1, 2, MaxRows, 10, LimitMax, LimitMax + 1}

CategoryInputs ==
    Range(CategoryKeys) \cup
    { <<83, 65, 70, 69, 84, 89>>,                                      \* SAFETY
      <<69, 99, 111, 95, 70, 114, 105, 101, 110, 100, 108, 121>>,      \* Eco_Friendly
      <<112, 114, 105, 99, 101>>,                                      \* price
      <<115, 97, 102, 101, 116, 121, 95, 115, 99, 111, 114, 101>> }    \* safety_score

QueryInputs ==
    { <<112>>,          \* p
      <<97, 114>>,      \* ar
      <<65, 82>>,       \* AR
      <<99, 101>>,      \* ce
      <<118, 237>>,     \* v, i-acute
      <<86, 205>>,      \* V, I-acute
      <<95, 95>>,       \* __
      <<37, 37>>,       \* %%
      <<122, 122>> }    \* zz

(***************************************************************************)
(* The service.                                                            *)
(***************************************************************************)
Init ==
    /\ dbMode \in {"ok", "no_table", "absent", "unreachable"}
    /\ table \in Tables
    /\ dbMode # "ok" => table = <<>>
    /\ req = NoRequest
    /\ resp = NoResponse
    /\ openConns = 0
    /\ reqOpened = 0
    /\ reqQueries = 0
    /\ value = Null
    /\ parsed = NotParsed

Next ==
    \/ get_all_cities
    \/ \E n \in CityNameInputs, c \in CountryInputs : get_city_metrics(n, c)
    \/ \E n \in CityNameInputs, c \in CountryInputs : get_city_scores(n, c)
    \/ \E l \in LimitInputs : get_top_cities(l)
    \/ \E c \in CategoryInputs, l \in LimitInputs : get_top_cities_by_category(c, l)
    \/ \E q \in QueryInputs, l \in LimitInputs : search_cities(q, l)
    \/ health_check
    \/ Deliver
    \/ Finalize

Spec == Init /\ [][Next]_vars

(***************************************************************************)
(* parse_recommendations on its own: every text of at most MaxRecLen       *)
(* characters over RecAlphabet, NULL, and the documented examples.         *)
(***************************************************************************)
RecAlphabet == {97, 49, 44, 10, 32, 91, 93, 34}    \* a 1 , \n space [ ] "

RecExamples ==
    { <<91, 34, 97, 34, 44, 34, 98, 34, 93>>,      \* ["a","b"]
      <<97, 44, 32, 98, 44, 32, 99>>,              \* a, b, c
      <<97, 10, 98>>,                              \* a\nb
      <<115, 105, 110, 103, 108, 101>> }           \* single

RecInputs ==
    {Null} \cup
    {Text(s) : s \in RecExamples \cup UNION {[1..k -> RecAlphabet] : k \in 0..MaxRecLen}}

Parse ==
    /\ ~parsed.called
    /\ parsed' = [called |-> TRUE, result |-> parse_recommendations(value)]
    /\ UNCHANGED <<table, dbMode, req, resp, openConns, reqOpened, reqQueries, value>>

ParseInit ==
    /\ dbMode = "ok"
    /\ table = <<>>
    /\ req = NoRequest
    /\ resp = NoResponse
    /\ openConns = 0
    /\ reqOpened = 0
    /\ reqQueries = 0
    /\ value \in RecInputs
    /\ parsed = NotParsed

ParseNext == Parse

ParseSpec == ParseInit /\ [][ParseNext]_vars

(***************************************************************************)
(* Vocabulary of the properties.                                           *)
(***************************************************************************)
\* Text with its letters, ASCII or not, replaced by their lower-case forms.
CaseFold(s) == [i \in 1..Len(s) |-> PyLowerChar(s[i])]

SameIgnoringCase(a, b) == CaseFold(a) = CaseFold(b)

\* q occurs in text as a contiguous run of characters.
Contains(text, q) ==
    \E i \in 0..(Len(text) - Len(q)) : SubSeq(text, i + 1, i + Len(q)) = q

ContainsIgnoringCase(text, q) == Contains(CaseFold(text), CaseFold(q))

\* The seven categories and the score each one names.
SevenCategories ==
    << [name |-> <<115, 97, 102, 101, 116, 121>>, score |-> "safety_score"],
       [name |-> <<115, 117, 115, 116, 97, 105, 110, 97, 98, 105, 108, 105, 116, 121>>,
        score |-> "sustainability_score"],
       [name |-> <<101, 110, 106, 111, 121, 109, 101, 110, 116>>, score |-> "enjoyment_score"],
       [name |-> <<99, 97, 108, 109, 99, 97, 116, 105, 111, 110>>, score |-> "calmcation_score"],
       [name |-> <<99, 117, 108, 116, 117, 114, 97, 108, 95, 101, 120, 99, 104, 97, 110, 103, 101>>,
        score |-> "cultural_exchange_score"],
       [name |-> <<110, 97, 118, 105, 103, 97, 116, 105, 111, 110>>, score |-> "navigation_score"],
       [name |-> <<101, 99, 111, 95, 102, 114, 105, 101, 110, 100, 108, 121>>,
        score |-> "eco_friendly_score"] >>

IsCategory(c) == \E i \in 1..7 : SameIgnoringCase(c, SevenCategories[i].name)

ScoreOf(c) ==
    SevenCategories[CHOOSE i \in 1..7 : SameIgnoringCase(c, SevenCategories[i].name)].score

\* The item of a list payload stands for row r.
ItemIsRow(item, r) == item.capital = r.capital /\ item.country = r.country

LimitInRange == req.limit >= 1 /\ req.limit <= 50

Paginated == {"top_cities", "top_cities_by_category", "search"}

\* The rows of the table that contain the query of the request.
RowsContainingQuery ==
    SelectSeq(table, LAMBDA r :
        \/ ContainsIgnoringCase(r.capital, req.query)
        \/ ContainsIgnoringCase(r.country, req.query))

(***************************************************************************)
(* Properties.                                                             *)
(***************************************************************************)
\* C1: a lookup by /city/{name}?country={c} (or its /scores variant) whose
\* name and country equal, up to letter case, the capital and country of a
\* row of the table succeeds and returns a record whose capital and country
\* are that name and country up to letter case.
C1_LookupIgnoresCase ==
    ( /\ req.endpoint \in {"city", "city_scores"}
      /\ dbMode = "ok"
      /\ req.country.given
      /\ \E r \in Range(table) : /\ SameIgnoringCase(r.capital, req.city_name)
                                 /\ SameIgnoringCase(r.country, req.country.text) )
    => /\ resp.status = 200
       /\ SameIgnoringCase(resp.body.record.capital, req.city_name)
       /\ SameIgnoringCase(resp.body.record.country, req.country.text)

\* C2: with the store working and 1 <= limit <= 50, /top-cities returns
\* min(limit, number of rows) items (successfully when there is a row), the
\* items are distinct rows of the table with their overall_score, ranked
\* 1, 2, ..., k in order of non-increasing overall_score, and every row with
\* a score strictly greater than that of some returned item is returned.
C2_TopCities ==
    (req.endpoint = "top_cities" /\ dbMode = "ok" /\ LimitInRange)
    => LET items == resp.body.items
           k == Len(items)
       IN  /\ k = Min(req.limit, Len(table))
           /\ table # <<>> => resp.status = 200
           /\ \A i \in 1..k : items[i].rank = i
           /\ \A i \in 1..(k - 1) : items[i].overall_score >= items[i + 1].overall_score
           /\ \A i \in 1..k : \E r \in Range(table) :
                  ItemIsRow(items[i], r) /\ items[i].overall_score = r.overall_score
           /\ \A i, j \in 1..k : i # j => ~ItemIsRow(items[i], items[j])
           /\ \A r \in Range(table) :
                  (\E i \in 1..k : r.overall_score > items[i].overall_score)
                  => \E j \in 1..k : ItemIsRow(items[j], r)

C2_Witness ==
    /\ req.endpoint = "top_cities"
    /\ dbMode = "ok"
    /\ req.limit = 2
    /\ Len(table) = 3
    /\ table[1].overall_score < table[3].overall_score
    /\ resp.status = 200
    /\ Len(resp.body.items) = 2

\* C3: with the store working and the limit in range, /top-cities/{category}
\* for a category that is one of the seven names in any letter case returns
\* (successfully when there is a row) min(limit, number of rows) distinct
\* rows ranked 1..k in order of non-increasing score of that category, each
\* item's category_score being its row's score in that category, and echoes
\* the category as given; for any other category it answers 400 with a
\* detail that lists exactly the seven names.
C3_TopByCategory ==
    (req.endpoint = "top_cities_by_category" /\ dbMode = "ok" /\ LimitInRange)
    => IF IsCategory(req.category)
       THEN LET items == resp.body.items
                k == Len(items)
            IN  /\ k = Min(req.limit, Len(table))
                /\ table # <<>> => resp.status = 200
                /\ \A i \in 1..k : items[i].rank = i
                /\ \A i \in 1..(k - 1) :
                       items[i].category_score >= items[i + 1].category_score
                /\ \A i \in 1..k : \E r \in Range(table) :
                       /\ ItemIsRow(items[i], r)
                       /\ items[i].category_score = r[ScoreOf(req.category)]
                /\ \A i, j \in 1..k : i # j => ~ItemIsRow(items[i], items[j])
       ELSE /\ resp.status = 400
            /\ Len(resp.detail.valid) = 7
            /\ Range(resp.detail.valid) = {SevenCategories[i].name : i \in 1..7}

C3_Witness ==
    /\ req.endpoint = "top_cities_by_category"
    /\ dbMode = "ok"
    /\ req.category = <<69, 99, 111, 95, 70, 114, 105, 101, 110, 100, 108, 121>>
    /\ req.limit = 10
    /\ Len(table) = 3
    /\ resp.status = 200
    /\ resp.body.items[1].category_score > resp.body.items[3].category_score
    /\ table[1].eco_friendly_score < table[3].eco_friendly_score

\* C4: with the store working, a query of at least 2 characters and the
\* limit in range, /search returns only rows whose capital or country
\* contains the query as a case-insensitive substring, and it returns
\* min(limit, number of such rows) of them.
C4_SearchMatchesSubstring ==
    (req.endpoint = "search" /\ dbMode = "ok" /\ Len(req.query) >= 2 /\ LimitInRange)
    => LET items == resp.body.items
           matching == RowsContainingQuery
       IN  /\ \A i \in 1..Len(items) : \E j \in 1..Len(matching) :
                  ItemIsRow(items[i], matching[j])
           /\ Len(items) = Min(req.limit, Len(matching))

\* C5: a limit outside [1, 50] on a paginated endpoint, and a /search query
\* shorter than 2 characters, are answered 422, and a category that is none
\* of the seven names is answered with a client error (400, or 422 when the
\* limit is out of range too); in each case the request opens no connection
\* and executes no query.
C5_RejectedBeforeQuery ==
    /\ (req.endpoint \in Paginated /\ ~LimitInRange)
       => resp.status = 422 /\ reqOpened = 0 /\ reqQueries = 0
    /\ (req.endpoint = "search" /\ Len(req.query) < 2)
       => resp.status = 422 /\ reqOpened = 0 /\ reqQueries = 0
    /\ (req.endpoint = "top_cities_by_category" /\ ~IsCategory(req.category))
       => resp.status \in {400, 422} /\ reqOpened = 0 /\ reqQueries = 0

C5_Witness ==
    /\ req.endpoint = "search"
    /\ req.query = <<97, 114>>
    /\ req.limit = 51
    /\ dbMode = "ok"
    /\ table # <<>>
    /\ resp.status = 422
    /\ reqQueries = 0

SepCount(s, sep) == Cardinality({i \in 1..Len(s) : s[i] = sep})

SepPos(s, sep, k) ==
    IF k = 0 THEN 0
    ELSE IF k > SepCount(s, sep) THEN Len(s) + 1
    ELSE CHOOSE i \in 1..Len(s) :
             s[i] = sep /\ Cardinality({j \in 1..i : s[j] = sep}) = k

Piece(s, sep, k) == SubSeq(s, SepPos(s, sep, k - 1) + 1, SepPos(s, sep, k) - 1)

\* x is s without the whitespace at its two ends.
IsTrimOf(x, s) ==
    /\ x # <<>> => ~IsSpace(x[1]) /\ ~IsSpace(x[Len(x)])
    /\ \E i \in 0..Len(s) : \E j \in i..Len(s) :
           /\ x = SubSeq(s, i + 1, j)
           /\ \A n \in (1..i) \cup ((j + 1)..Len(s)) : IsSpace(s[n])

\* The pieces of s at sep, trimmed, as a sequence of text.
TrimmedPieces(s, sep) ==
    [k \in 1..(SepCount(s, sep) + 1) |->
        CHOOSE x \in {SubSeq(s, a, b) : a \in 1..(Len(s) + 1), b \in 0..Len(s)} :
            IsTrimOf(x, Piece(s, sep, k))]

\* The strings a decoded result holds, when it holds only strings.
Strings(out) == [i \in 1..Len(out) |-> out[i].s]
AllStrings(out) == \A i \in 1..Len(out) : out[i].t = "str"

\* C7: parse_recommendations follows the fallback chain: NULL or empty text
\* gives the empty sequence; text that decodes as a JSON list gives that
\* list; text that is not JSON gives, if it has a comma, its pieces at the
\* commas, each trimmed; else if it has a newline, its pieces at the
\* newlines, trimmed, the empty ones dropped; else the text itself as the
\* one recommendation.  The five documented examples decode as documented.
C7_ParseRecommendations ==
    parsed.called =>
    LET t == value.text
        out == parsed.result
        json == json_loads(t)
    IN  /\ (value.null \/ t = <<>>) => out = <<>>
        /\ (~value.null /\ t # <<>> /\ json.ok /\ json.val.t = "list")
           => out = json.val.items
        /\ (~value.null /\ t # <<>> /\ ~json.ok /\ 44 \in Range(t))
           => AllStrings(out) /\ Strings(out) = TrimmedPieces(t, 44)
        /\ (~value.null /\ t # <<>> /\ ~json.ok /\ 44 \notin Range(t) /\ 10 \in Range(t))
           => /\ AllStrings(out)
              /\ Strings(out) = SelectSeq(TrimmedPieces(t, 10), LAMBDA x : x # <<>>)
        /\ (~value.null /\ t # <<>> /\ ~json.ok /\ 44 \notin Range(t) /\ 10 \notin Range(t))
           => out = <<JStr(t)>>
        /\ value = Text(<<91, 34, 97, 34, 44, 34, 98, 34, 93>>)
           => out = <<JStr(<<97>>), JStr(<<98>>)>>
        /\ value = Text(<<97, 44, 32, 98, 44, 32, 99>>)
           => out = <<JStr(<<97>>), JStr(<<98>>), JStr(<<99>>)>>
        /\ value = Text(<<97, 10, 98>>) => out = <<JStr(<<97>>), JStr(<<98>>)>>
        /\ value = Text(<<115, 105, 110, 103, 108, 101>>)
           => out = <<JStr(<<115, 105, 110, 103, 108, 101>>)>>

C7_Witness ==
    /\ parsed.called
    /\ value = Text(<<97, 44, 32, 98, 44, 32, 99>>)
    /\ Len(parsed.result) = 3

\* C8: no connection opened by a finished request remains open.
C8_ConnectionsReleased == openConns = 0

\* C9: /health answers 200 "healthy" with the row count when the count query
\* succeeds and a 500 HTTP error with the failure detail when it fails, and
\* every failure of every other endpoint is answered with a 400-class
\* status.
C9_OnlyHealthReports500 ==
    /\ (req.endpoint = "health" /\ dbMode = "ok")
       => resp.status = 200 /\ resp.body.kind = "health" /\ resp.body.count = Len(table)
    /\ (req.endpoint = "health" /\ dbMode # "ok")
       => /\ resp.status = 500
          /\ resp.error = "HTTPException"
          /\ resp.detail.msg = "Health check failed"
    /\ (req.endpoint \notin {"none", "health"} /\ resp.status # 200)
       => resp.status \in {400, 404, 422}

\* C9 as amended: /health as above; on every other endpoint the failures the
\* handler or the parameter validation detects (no qualifying row, invalid
\* category, parameter out of range) are answered 404, 400 or 422, no other
\* failure occurs while the store works, and a store failure is not caught:
\* it leaves the handler as the store's exception, without an HTTP error of
\* the handler's making.
C9_StoreFailureUncaughtElsewhere ==
    /\ (req.endpoint = "health" /\ dbMode = "ok")
       => resp.status = 200 /\ resp.body.kind = "health" /\ resp.body.count = Len(table)
    /\ (req.endpoint = "health" /\ dbMode # "ok")
       => /\ resp.status = 500
          /\ resp.error = "HTTPException"
          /\ resp.detail.msg = "Health check failed"
    /\ (req.endpoint \notin {"none", "health"} /\ resp.status # 200)
       => \/ /\ resp.error \in {"HTTPException", "RequestValidationError"}
             /\ resp.status \in {400, 404, 422}
          \/ /\ dbMode # "ok"
             /\ resp.error = "OperationalError"
             /\ resp.status = 500
             /\ resp.detail = NoDetail

C9_Witness ==
    /\ req.endpoint = "health"
    /\ dbMode = "no_table"
    /\ resp.status = 500
    /\ openConns > 0

\* C10: no step of the service changes the contents of city_metrics or
\* brings the table into being.
C10_ReadOnly == [][table' = table /\ (dbMode' = "ok") = (dbMode = "ok")]_vars

C10_Witness ==
    /\ req.endpoint = "search"
    /\ reqQueries = 1
    /\ resp.status = 200
    /\ Len(table) = 3
    /\ Len(resp.body.items) = 1

====
